---- MODULE Spec2Model ----
(***************************************************************************)
(* State-machine model of opal_fetcher_ldap/provider.py: the fetch         *)
(* provider LdapFetchProvider (construction, scoped connection entry and   *)
(* exit, _fetch_, _process_) and the retry policy it declares.             *)
(*                                                                         *)
(* The module under src/ uses the names asyncpg and DataError without      *)
(* importing them.  The model reads them as the asyncpg library the calls  *)
(* are written against (connect / transaction / fetch / fetchrow / close,  *)
(* asyncpg's DataError); every library call may also raise, which covers   *)
(* the failure of the name lookup itself.                                  *)
(***************************************************************************)
EXTENDS Naturals, Sequences, FiniteSets, TLC

VARIABLES
    pc,              \* position of the host's fetch cycle around the adapter
    cycles,          \* adapters constructed so far (one per fetch event)
    nullDelivered,   \* the event of the current cycle carried config = None
    attributes,      \* attribute list asked for by the caller of this cycle
    _event,          \* self._event
    _connection,     \* self._connection
    _transaction,    \* self._transaction
    live,            \* connections currently open in the library
    closed,          \* connections on which close() has been called
    dbRows,          \* rows the query matched in the last _fetch_
    records,         \* value returned by the last _fetch_
    out,             \* value returned by the last _process_
    procCalls,       \* _process_ calls made on the current records
    err,             \* exception raised by the last operation, or "none"
    lastOp,          \* last operation run
    attempt_number,  \* retry wrapper: number of the current attempt
    outcome          \* retry wrapper: outcome of the last attempt

vars == <<pc, cycles, nullDelivered, attributes, _event, _connection,
          _transaction, live, closed, dbRows, records, out, procCalls, err,
          lastOp, attempt_number, outcome>>

retryVars == <<attempt_number, outcome>>

(* ------------------------------ bounds -------------------------------- *)
MaxRows == 2
MaxCycles == 2
MaxProcess == 2

(* --------------------------- value universe --------------------------- *)
None == [tag |-> "None"]
NoneStr == "None"
Unset == [tag |-> "unset"]

Types == {"searchResEntry", "searchResDone"}
Dns == {"cn=a", "cn=b"}
AttrNames == {"mail", "phone"}
Values == {"v"}

\* attribute sets a directory entry carries
EntryAttrSets == {{"mail"}, {"mail", "phone"}}

AttrMaps == UNION {[S -> Values] : S \in EntryAttrSets}

\* a row handed back by the connection library: a mapping column -> value
Rows == {[tag |-> "Record", cols |-> [type |-> t, dn |-> d, attributes |-> a]] :
            t \in Types, d \in Dns, a \in AttrMaps}

RowSeqs == UNION {[1..n -> Rows] : n \in 0..MaxRows}

\* the results the retry wrapper's attempts draw from
RetryRowSeqs == {s \in RowSeqs : Len(s) <= 1}

AttrLists == {{"mail"}, {"mail", "phone"}}

(* --------------------------- configuration ---------------------------- *)
LdapConnectionParams(user, password) ==
    [tag |-> "LdapConnectionParams",
     fields |-> [root |-> NoneStr, search |-> NoneStr, user |-> user,
                 password |-> password, host |-> NoneStr, port |-> NoneStr,
                 tls |-> NoneStr]]

\* pydantic's .dict(exclude_none=True)
dict_exclude_none(params) ==
    [k \in {f \in DOMAIN params.fields : params.fields[f] # NoneStr} |->
        params.fields[k]]

\* LdapFetcherConfig(**given): query is required (Field(...)), the other
\* fields have defaults
LdapFetcherConfig(given) ==
    IF "query" \notin DOMAIN given
    THEN [tag |-> "ValidationError"]
    ELSE [tag |-> "LdapFetcherConfig",
          fetcher |-> "LdapFetchProvider",
          connection_params |-> IF "connection_params" \in DOMAIN given
                                THEN given.connection_params ELSE None,
          query |-> given.query,
          fetch_one |-> IF "fetch_one" \in DOMAIN given
                        THEN given.fetch_one ELSE FALSE]

ConnParamChoices == {None, LdapConnectionParams("u", NoneStr)}

Configs == {LdapFetcherConfig([query |-> "q", fetch_one |-> f,
                               connection_params |-> cp]) :
               f \in BOOLEAN, cp \in ConnParamChoices}

\* LdapFetchEvent: config defaults to None
LdapFetchEvent(url, config) ==
    [tag |-> "LdapFetchEvent", fetcher |-> "LdapFetchProvider", url |-> url,
     config |-> config]

Events == {LdapFetchEvent("ldap://h", c) : c \in Configs \cup {None}}

(* ------------------------------ Init ---------------------------------- *)
Init ==
    /\ pc = "idle"
    /\ cycles = 0
    /\ nullDelivered = FALSE
    /\ attributes = {}
    /\ _event = Unset
    /\ _connection = None
    /\ _transaction = None
    /\ live = {}
    /\ closed = {}
    /\ dbRows = <<>>
    /\ records = Unset
    /\ out = Unset
    /\ procCalls = 0
    /\ err = "none"
    /\ lastOp = "none"
    /\ attempt_number = 0
    /\ outcome = Unset

CycleOver == {"idle", "enter_failed", "exited", "exit_failed"}

(* ---------------------------- __init__ -------------------------------- *)
\* the host builds one adapter per fetch event; attrs is the attribute list
\* the caller asked for (no field of LdapFetcherConfig holds it)
__init__(event, attrs) ==
    /\ pc \in CycleOver
    /\ cycles < MaxCycles
    /\ LET config == IF event.config = None
                     THEN LdapFetcherConfig(<<>>)
                     ELSE event.config
       IN  /\ cycles' = cycles + 1
           /\ nullDelivered' = (event.config = None)
           /\ attributes' = attrs
           /\ _connection' = None
           /\ _transaction' = None
           /\ dbRows' = <<>>
           /\ records' = Unset
           /\ out' = Unset
           /\ procCalls' = 0
           /\ lastOp' = "__init__"
           /\ IF config.tag = "ValidationError"
              THEN /\ pc' = "idle"
                   /\ err' = "ValidationError"
                   /\ _event' = Unset
              ELSE /\ pc' = "constructed"
                   /\ err' = "none"
                   /\ _event' = [event EXCEPT !.config = config]
    /\ attempt_number' = 0
    /\ outcome' = Unset
    /\ UNCHANGED <<live, closed>>

(* ---------------------------- __aenter__ ------------------------------ *)
\* a variant that asks for an ordinary (read-write) transaction
connection_transaction_rw(conn) ==
    [tag |-> "Transaction", conn |-> conn.id, readonly |-> FALSE, state |-> "new"]

\* connection.transaction(readonly=True): a transaction object, not yet started
connection_transaction(conn) ==
    [tag |-> "Transaction", conn |-> conn.id, readonly |-> TRUE, state |-> "new"]

\* connected: asyncpg.connect returned a connection (opened and authenticated)
\* rather than raising; started: transaction.__aenter__ returned
__aenter__ ==
    /\ pc = "constructed"
    /\ \E connected \in BOOLEAN, started \in BOOLEAN :
        LET dsn == _event.url
            connection_params ==
                IF _event.config.connection_params = None
                THEN <<>>
                ELSE dict_exclude_none(_event.config.connection_params)
            conn == [tag |-> "Connection", id |-> cycles, dsn |-> dsn,
                     params |-> connection_params]
        IN  IF ~connected
            THEN /\ pc' = "enter_failed"
                 /\ err' = "ConnectionError"
                 /\ UNCHANGED <<_connection, _transaction, live>>
            ELSE /\ _connection' = conn
                 /\ live' = live \cup {conn.id}
                 /\ IF started
                    THEN /\ _transaction' =
                              [connection_transaction(conn) EXCEPT !.state = "started"]
                         /\ pc' = "entered"
                         /\ err' = "none"
                    ELSE /\ _transaction' = connection_transaction(conn)
                         /\ pc' = "enter_failed"
                         /\ err' = "InterfaceError"
    /\ lastOp' = "__aenter__"
    /\ UNCHANGED <<cycles, nullDelivered, attributes, _event, closed, dbRows,
                   records, out, procCalls, retryVars>>

(* ---------------------------- __aexit__ ------------------------------- *)
\* the body of __aexit__ with its two guards as parameters; ended: the
\* transaction's own __aexit__ (commit / rollback) returned rather than raising
aexit_steps(hasTransaction, hasConnection) ==
    /\ pc \in {"constructed", "enter_failed", "entered", "fetched",
               "fetch_failed", "processed", "process_failed"}
    /\ \E ended \in BOOLEAN :
        IF hasTransaction /\ ~ended
        THEN /\ pc' = "exit_failed"
             /\ err' = "TransactionError"
             /\ UNCHANGED <<_transaction, live, closed>>
        ELSE /\ _transaction' = IF hasTransaction
                                THEN [_transaction EXCEPT !.state = "ended"]
                                ELSE _transaction
             /\ IF hasConnection
                THEN IF _connection = None
                     THEN /\ pc' = "exit_failed"
                          /\ err' = "AttributeError"
                          /\ UNCHANGED <<live, closed>>
                     ELSE /\ live' = live \ {_connection.id}
                          /\ closed' = closed \cup {_connection.id}
                          /\ pc' = "exited"
                          /\ err' = "none"
                ELSE /\ pc' = "exited"
                     /\ err' = "none"
                     /\ UNCHANGED <<live, closed>>
    /\ lastOp' = "__aexit__"
    /\ UNCHANGED <<cycles, nullDelivered, attributes, _event, _connection,
                   dbRows, records, out, procCalls, retryVars>>

\* a variant that closes without testing self._connection
aexit_unguarded == aexit_steps(_transaction # None, TRUE)

__aexit__ == aexit_steps(_transaction # None, _connection # None)

(* ----------------------------- _fetch_ -------------------------------- *)
Ok(v) == [tag |-> "ok", value |-> v]
Raise(e) == [tag |-> "raise", exc |-> e]
List(items) == [tag |-> "list", items |-> items]

\* what a query can fail with: a query error or a connection error
DbErrors == {"none", "DataError", "ConnectionError"}

\* connection.fetchrow: the first matching row, or None when nothing matches
fetchrow(rows) == IF rows = <<>> THEN None ELSE rows[1]

\* connection.fetch: all matching rows, as a list
fetch_all(rows) == List(rows)

\* the body of _fetch_ on the rows the query matches (rows) and the error the
\* library raises for it (dbErr)
fetch_result(event, conn, rows, dbErr) ==
    IF event.config = None
    THEN Ok(None)
    ELSE IF conn = None
    THEN Raise("AttributeError")
    ELSE IF dbErr # "none"
    THEN Raise(dbErr)
    ELSE IF event.config.fetch_one
    THEN Ok(List(<<fetchrow(rows)>>))
    ELSE Ok(fetch_all(rows))

_fetch_ ==
    /\ pc = "entered"
    /\ \E rows \in RowSeqs, dbErr \in DbErrors :
        LET r == fetch_result(_event, _connection, rows, dbErr)
        IN  /\ dbRows' = IF dbErr = "none" THEN rows ELSE <<>>
            /\ IF r.tag = "ok"
               THEN /\ records' = r.value
                    /\ pc' = "fetched"
                    /\ err' = "none"
               ELSE /\ records' = Unset
                    /\ pc' = "fetch_failed"
                    /\ err' = r.exc
    /\ lastOp' = "_fetch_"
    /\ UNCHANGED <<cycles, nullDelivered, attributes, _event, _connection,
                   _transaction, live, closed, out, procCalls, retryVars>>

(* ---------------------------- _process_ ------------------------------- *)
\* dict(record): the record's columns as a plain mapping; dict(None) raises
dict(record) ==
    IF record = None
    THEN [tag |-> "TypeError"]
    ELSE [tag |-> "dict", items |-> record.cols]

EmptyDict == [tag |-> "dict", items |-> <<>>]

\* the body of _process_
process_result(event, recs) ==
    IF event.config.fetch_one
    THEN IF recs # None /\ Len(recs.items) > 0
         THEN LET d == dict(recs.items[1])
              IN  IF d.tag = "TypeError" THEN Raise("TypeError") ELSE Ok(d)
         ELSE Ok(EmptyDict)
    ELSE IF recs = None
         THEN Raise("TypeError")
         ELSE Ok(List([i \in DOMAIN recs.items |-> dict(recs.items[i])]))

\* one call of _process_ that leaves `after` in place of the record list
process_call(after) ==
    /\ pc \in {"fetched", "processed"}
    /\ procCalls < MaxProcess
    /\ LET r == process_result(_event, records)
       IN  /\ out' = r
           /\ pc' = IF r.tag = "ok" THEN "processed" ELSE "process_failed"
           /\ err' = IF r.tag = "ok" THEN "none" ELSE r.exc
    /\ records' = after
    /\ procCalls' = procCalls + 1
    /\ lastOp' = "_process_"
    /\ UNCHANGED <<cycles, nullDelivered, attributes, _event, _connection,
                   _transaction, live, closed, dbRows, retryVars>>

\* a variant whose iteration uses the records up (a one-shot iterator)
process_consuming == process_call(List(<<>>))

\* records is a list: reading it leaves it as it was
_process_ == process_call(records)

(* ---------------------------- RETRY_CONFIG ---------------------------- *)
MaxAttempts == 10

\* stop.stop_after_attempt(n): stop once the attempt number reaches n
stop_after_attempt(n, attempt) == attempt >= n

\* retry_unless_exception_type(types): retry unless the attempt raised one of
\* types; an attempt that raised nothing is retried as well
retry_unless_exception_type(types, o) ==
    IF o.tag = "ok" THEN TRUE ELSE o.exc \notin types

RETRY_CONFIG ==
    [stop |-> MaxAttempts, retry |-> {"DataError"}, reraise |-> TRUE]

\* one attempt of the host's fetch(): _fetch_ run under retry(**RETRY_CONFIG)
fetch ==
    /\ pc = "entered"
    /\ \E rows \in RetryRowSeqs, dbErr \in DbErrors :
        LET n == attempt_number + 1
            o == fetch_result(_event, _connection, rows, dbErr)
        IN  /\ attempt_number' = n
            /\ outcome' = o
            /\ dbRows' = IF dbErr = "none" THEN rows ELSE <<>>
            /\ IF ~retry_unless_exception_type(RETRY_CONFIG.retry, o)
               THEN \* no retry: the attempt's own result, returned or raised
                    IF o.tag = "ok"
                    THEN /\ pc' = "fetched"
                         /\ err' = "none"
                         /\ records' = o.value
                    ELSE /\ pc' = "fetch_failed"
                         /\ err' = o.exc
                         /\ records' = Unset
               ELSE IF stop_after_attempt(RETRY_CONFIG.stop, n)
               THEN \* out of attempts: reraise
                    /\ pc' = "fetch_failed"
                    /\ err' = IF o.tag = "raise" /\ RETRY_CONFIG.reraise
                              THEN o.exc ELSE "RetryError"
                    /\ records' = Unset
               ELSE \* wait, then attempt again
                    /\ pc' = "entered"
                    /\ err' = "none"
                    /\ records' = Unset
    /\ lastOp' = "fetch"
    /\ UNCHANGED <<cycles, nullDelivered, attributes, _event, _connection,
                   _transaction, live, closed, out, procCalls>>

(* --------------------------- specifications --------------------------- *)
Next ==
    \/ \E event \in Events, attrs \in AttrLists : __init__(event, attrs)
    \/ __aenter__
    \/ _fetch_
    \/ _process_
    \/ __aexit__

Spec == Init /\ [][Next]_vars

\* the fetch cycle with _fetch_ run under the declared retry policy
RetryNext ==
    \/ \E event \in Events, attrs \in AttrLists : __init__(event, attrs)
    \/ __aenter__
    \/ fetch
    \/ __aexit__

RetrySpec == Init /\ [][RetryNext]_vars

(* ------------------------------ claims -------------------------------- *)
\* the mappings a _process_ result holds
OutEntries ==
    IF out.tag # "ok" THEN {}
    ELSE IF out.value.tag = "list"
    THEN {out.value.items[i] : i \in DOMAIN out.value.items}
    ELSE {out.value}

\* the mapping the result holds for the i-th record handed to _process_
SubMapping(i) ==
    IF out.value.tag = "list" THEN out.value.items[i].items ELSE out.value.items

\* C1: for an event whose configuration is null, __init__ completes without
\* raising and leaves a non-null configuration, and a following _fetch_
\* returns an empty result instead of raising.
C1_NullConfigTolerated ==
    nullDelivered =>
        /\ lastOp = "__init__" =>
              (err = "none" /\ pc = "constructed" /\ _event # Unset
                  /\ _event.config # None)
        /\ lastOp = "_fetch_" => (err = "none" /\ records = None)

\* C2: the output of _process_ holds an entry only for records whose type is
\* "searchResEntry"; records of any other type contribute nothing.
C2_OnlySearchResEntry ==
    (lastOp = "_process_" /\ out.tag = "ok") =>
        \A e \in OutEntries :
            e.items # <<>> => e.items.type = "searchResEntry"

\* C3: for every record retained by _process_, its output sub-mapping has
\* exactly the attribute keys that are both in the configured attribute list
\* and present in the record, each with the record's value.
C3_OnlyRequestedAttributes ==
    (lastOp = "_process_" /\ out.tag = "ok" /\ records # None) =>
        \A i \in DOMAIN records.items :
            (records.items[i] # None
                /\ records.items[i].cols.type = "searchResEntry") =>
            LET have == records.items[i].cols.attributes
                want == attributes \cap DOMAIN have
            IN  /\ DOMAIN SubMapping(i) = want
                /\ \A k \in want : SubMapping(i)[k] = have[k]

\* C4: a connection opened by __aenter__ is closed by the time the fetch
\* cycle ends, on every path; none stays open into a later cycle.
C4_ConnectionClosedAtCycleEnd ==
    (lastOp = "__init__" \/ pc \in {"exited", "exit_failed"}) => live = {}

\* C5: __aexit__ on an adapter that holds no connection (__aenter__ never ran,
\* or never obtained one) raises nothing, closes nothing and leaves the
\* connection and transaction fields as they were.
C5_ReleaseWithoutConnectionIsNoOp ==
    [][(/\ pc \notin {"exited", "exit_failed"}
        /\ pc' \in {"exited", "exit_failed"}
        /\ _connection = None)
       => (/\ pc' = "exited"
           /\ err' = "none"
           /\ UNCHANGED <<_connection, _transaction, live, closed>>)]_vars

C5_Witness ==
    /\ lastOp = "__aexit__"
    /\ pc = "exited"
    /\ _connection = None
    /\ _transaction = None

\* C6: __aenter__ either returns with the adapter holding an open connection
\* and a started transaction on which read-only mode was requested, or it
\* fails with an error; it never returns normally short of that.
C6_EnterReturnsBoundReadOnly ==
    /\ lastOp = "__aenter__" => pc \in {"entered", "enter_failed"}
    /\ (lastOp = "__aenter__" /\ pc = "enter_failed") => err # "none"
    /\ pc = "entered" =>
          /\ _connection # None
          /\ _connection.id \in live
          /\ _transaction # None
          /\ _transaction.conn = _connection.id
          /\ _transaction.readonly
          /\ _transaction.state = "started"

C6_Witness ==
    /\ lastOp = "__aenter__"
    /\ pc = "entered"
    /\ err = "none"

\* C7: under RETRY_CONFIG a fetch is attempted again only after a failure with
\* a retryable error; the attempts stop at the first success, at the first
\* non-retryable (query) error, or after the 10th attempt, the last error
\* being re-raised; there are never more than 10 attempts.
C7_RetryPolicy ==
    /\ attempt_number <= MaxAttempts
    /\ lastOp = "fetch" =>
          /\ outcome.tag = "ok" => pc = "fetched"
          /\ (outcome.tag = "raise" /\ outcome.exc = "DataError") =>
                (pc = "fetch_failed" /\ err = "DataError")
          /\ (outcome.tag = "raise" /\ attempt_number = MaxAttempts) =>
                (pc = "fetch_failed" /\ err = outcome.exc)
          /\ pc = "entered" =>
                (outcome.tag = "raise" /\ outcome.exc # "DataError"
                    /\ attempt_number < MaxAttempts)

\* C8: if two records handed to _process_ share a dn, the output has a single
\* entry for that dn, built from the later of the two.
C8_LastWriteWins ==
    (lastOp = "_process_" /\ out.tag = "ok" /\ out.value.tag = "list") =>
        \A i, j \in DOMAIN records.items :
            (i < j /\ records.items[i].cols.dn = records.items[j].cols.dn) =>
            LET dn == records.items[j].cols.dn
                hits == {k \in DOMAIN out.value.items :
                            out.value.items[k].items.dn = dn}
                last == CHOOSE m \in DOMAIN records.items :
                            /\ records.items[m].cols.dn = dn
                            /\ \A n \in DOMAIN records.items :
                                  records.items[n].cols.dn = dn => n <= m
            IN  /\ Cardinality(hits) = 1
                /\ \A k \in hits :
                      out.value.items[k] = dict(records.items[last])

\* C9: _process_ called twice on the record sequence one _fetch_ returned
\* gives the same output both times, and no call changes the adapter's
\* configuration, connection or transaction.
C9_ProcessPureIdempotent ==
    [][(procCalls' = procCalls + 1)
       => (/\ UNCHANGED <<_event, _connection, _transaction, live, closed>>
           /\ (procCalls >= 1 => out' = out))]_vars

C9_Witness ==
    /\ lastOp = "_process_"
    /\ procCalls >= 2
    /\ out.tag = "ok"
    /\ out.value.tag = "list"
    /\ Len(out.value.items) > 0

\* C10: with fetch_one set, _fetch_ then _process_ gives a single mapping: the
\* first row's when the query matches a row, the empty mapping when it matches
\* none (no error); without fetch_one, a list with one mapping per row, in
\* fetch order.
C10_FetchOneShape ==
    lastOp = "_process_" =>
        IF _event.config.fetch_one
        THEN out = Ok(IF dbRows = <<>> THEN EmptyDict ELSE dict(dbRows[1]))
        ELSE out = Ok(List([i \in DOMAIN dbRows |-> dict(dbRows[i])]))
====
